---- MODULE Spec2Model ----
(***************************************************************************)
(* Model of misnersplunktool.py: the MainWindow session / poll / ad-hoc    *)
(* REST engine.  Every Qt slot is one atomic action (the event loop runs   *)
(* one handler at a time); nested calls (connect -> poll ->                *)
(* comboConfig_activated -> disconnect) are composed as functions on the   *)
(* window state record.  An exception that leaves a slot uncaught is       *)
(* recorded in the field "raised": PySide prints it and the window keeps   *)
(* the state reached so far.                                               *)
(***************************************************************************)
EXTENDS Integers, Sequences, FiniteSets, TLC

VARIABLES
    form,        \* the texts in the connection form and in the REST tab
    splunkd,     \* self.splunkd: NoSplunkd when the attribute does not exist
    ui,          \* enabled flags and captions of the connection widgets
    disp,        \* what each snapshot-derived widget shows
    tables,      \* rows of tableTCP and the counts of the Indexer Cluster labels
    rest,        \* REST tab: editRestResult and the comboRestURI items
    pollCount,   \* number of polls started so far (tags the data of a poll)
    trace,       \* network calls, status lines, dialogs of the last slot
    sent,        \* arguments of the Splunkd(...) and rest_call(...) calls of the last slot
    raised,      \* exception that left the last slot uncaught, or "none"
    op           \* the last slot run and its inputs

vars == <<form, splunkd, ui, disp, tables, rest, pollCount, trace, sent, raised, op>>

(***************************************************************************)
(* Bounds of the model.                                                    *)
(***************************************************************************)
MaxPolls == 2
MaxHistory == 1
MaxRows == 2

(***************************************************************************)
(* Text.  A text is a sequence of characters; a character is a one-letter  *)
(* string, and a longer string stands for a run of letters that holds no   *)
(* separator (such as the word "output_format").                           *)
(***************************************************************************)
IsSpace(c) == c = " "

RECURSIVE LStrip(_)
LStrip(s) == IF s = <<>> THEN <<>>
             ELSE IF IsSpace(Head(s)) THEN LStrip(Tail(s)) ELSE s

RECURSIVE RStrip(_)
RStrip(s) == IF s = <<>> THEN <<>>
             ELSE IF IsSpace(s[Len(s)]) THEN RStrip(SubSeq(s, 1, Len(s) - 1)) ELSE s

\* str.strip()
Strip(s) == RStrip(LStrip(s))

\* c in s
Contains(s, c) == \E i \in 1..Len(s) : s[i] = c

\* s.split(sep): the pieces between the separators, one more than separators
RECURSIVE SplitAcc(_, _, _)
SplitAcc(s, sep, cur) ==
    IF s = <<>> THEN <<cur>>
    ELSE IF Head(s) = sep THEN <<cur>> \o SplitAcc(Tail(s), sep, <<>>)
    ELSE SplitAcc(Tail(s), sep, Append(cur, Head(s)))

Split(s, sep) == SplitAcc(s, sep, <<>>)

Digits == {"0", "1", "2", "3", "4", "5", "6", "7", "8", "9"}

DigitVal(c) == CASE c = "0" -> 0 [] c = "1" -> 1 [] c = "2" -> 2 [] c = "3" -> 3
                 [] c = "4" -> 4 [] c = "5" -> 5 [] c = "6" -> 6 [] c = "7" -> 7
                 [] c = "8" -> 8 [] c = "9" -> 9

RECURSIVE DigitsVal(_, _)
DigitsVal(s, acc) == IF s = <<>> THEN acc
                     ELSE DigitsVal(Tail(s), 10 * acc + DigitVal(Head(s)))

\* the digits of an int() literal once blanks and the sign are removed
IntBody(s) == LET w == Strip(s)
              IN IF w # <<>> /\ Head(w) \in {"+", "-"} THEN Tail(w) ELSE w

\* int(s) does not raise ValueError
IsIntText(s) == /\ IntBody(s) # <<>>
                /\ \A i \in 1..Len(IntBody(s)) : IntBody(s)[i] \in Digits

\* int(s)
ParseInt(s) == LET w == Strip(s)
                   v == DigitsVal(IntBody(s), 0)
               IN IF w # <<>> /\ Head(w) = "-" THEN 0 - v ELSE v

(***************************************************************************)
(* The window state handled by the slots, as one record.                   *)
(***************************************************************************)
NoSplunkd == [id |-> 0, host |-> <<>>, port |-> 0, user |-> <<>>, pass |-> <<>>]

Cur == [splunkd |-> splunkd, ui |-> ui, disp |-> disp, tables |-> tables, rest |-> rest,
        pollCount |-> pollCount,
        trace |-> trace, sent |-> sent, raised |-> raised]

\* nothing sent yet: each list holds the argument records of the calls made
NoSent == [connect |-> <<>>, rest |-> <<>>]

Event(kind, name, detail) == [kind |-> kind, name |-> name, detail |-> detail]

Log(s, kind, name, detail) ==
    [s EXCEPT !.trace = Append(@, Event(kind, name, detail))]

statusbar_msg(s, msg) == Log(s, "status", msg, "")

warning_msg(s, msg) == Log(s, "warning", msg, "")

critical_msg(s, msg, detail) == Log(s, "critical", msg, detail)

NetCall(s, name) == Log(s, "call", name, "")

Raise(s, exc) == [s EXCEPT !.raised = exc]

\* the network calls of a trace, in order
Calls(t) == SelectSeq(t, LAMBDA e : e.kind = "call")

Dialogs(t) == SelectSeq(t, LAMBDA e : e.kind \in {"warning", "critical"})

StatusLines(t) == SelectSeq(t, LAMBDA e : e.kind = "status")

(***************************************************************************)
(* Display.  A field shows 0 (its placeholder: empty table, '(none)',      *)
(* progress 0, unchecked) or g > 0, the data fetched by poll number g.     *)
(***************************************************************************)
ResetFields == {"top", "general", "editConfig", "inputs", "apps",
                "clusterChecks", "clusterTables", "shcChecks", "shcTables",
                "cpu", "mem", "swap", "processes", "disks"}

DispFields == ResetFields \cup {"comboConfig"}

Placeholder == 0

\* the Indexer Cluster labels as disconnect leaves them: '? searchable',
\* '? not searchable', '?/? Peers Up'
NoClusterLabels ==
    [known |-> FALSE, peersSearchable |-> 0, peersNotSearchable |-> 0,
     indexesSearchable |-> 0, indexesNotSearchable |-> 0,
     peersTotal |-> 0, indexesTotal |-> 0]

\* tableTCP with no rows and the cluster labels reset
NoTables == [tcp |-> <<>>, cluster |-> NoClusterLabels]

UiDisconnected ==
    [comboAddress |-> TRUE, editUsername |-> TRUE, editPassword |-> TRUE,
     tabWidgetMain |-> FALSE, buttonPoll |-> FALSE, buttonToggle |-> "Connect",
     windowTitle |-> 0]

UiConnected(u) ==
    [u EXCEPT !.comboAddress = FALSE, !.editUsername = FALSE,
              !.editPassword = FALSE, !.tabWidgetMain = TRUE,
              !.buttonPoll = TRUE, !.buttonToggle = "Disconnect"]

\* disconnect with "del self.splunkd" outside its try: a second disconnect raises
disconnect_unguarded(s) ==
    IF s.splunkd = NoSplunkd THEN Raise(s, "AttributeError")
    ELSE statusbar_msg(
            [s EXCEPT !.splunkd = NoSplunkd,
                      !.ui = UiDisconnected,
                      !.disp = [f \in DispFields |->
                                   IF f \in ResetFields THEN Placeholder ELSE @[f]],
                      !.tables = NoTables,
                      !.rest = [@ EXCEPT !.result = <<>>]],
            "Disconnected")

\* disconnect without line 473: buttonPoll stays enabled
disconnect_keepsPollButton(s) ==
    statusbar_msg(
        [s EXCEPT !.splunkd = NoSplunkd,
                  !.ui = [UiDisconnected EXCEPT !.buttonPoll = s.ui.buttonPoll],
                  !.disp = [f \in DispFields |->
                               IF f \in ResetFields THEN Placeholder ELSE @[f]],
                  !.tables = NoTables,
                  !.rest = [@ EXCEPT !.result = <<>>]],
        "Disconnected")

\* MainWindow.disconnect
disconnect(s) ==
    statusbar_msg(
        [s EXCEPT !.splunkd = NoSplunkd,
                  !.ui = UiDisconnected,
                  !.disp = [f \in DispFields |->
                               IF f \in ResetFields THEN Placeholder ELSE @[f]],
                  !.tables = NoTables,
                  !.rest = [@ EXCEPT !.result = <<>>]],
        "Disconnected")

(***************************************************************************)
(* Outcomes of a call into the Splunkd wrapper: it returns ("none") or     *)
(* raises one of the exception classes the handlers tell apart.            *)
(***************************************************************************)
Failures == {"AuthenticationError", "socket.error", "Exception"}

Outcomes == {"none"} \cup Failures

\* self.splunkd.service.settings: AttributeError when self.splunkd is gone,
\* otherwise one request whose outcome is o
ProbeExc(s, o) == IF s.splunkd = NoSplunkd THEN "AttributeError" ELSE o

AfterProbe(s) == IF s.splunkd = NoSplunkd THEN s ELSE NetCall(s, "service.settings")

SetDisp(s, fields, v) ==
    [s EXCEPT !.disp = [f \in DispFields |-> IF f \in fields THEN v ELSE @[f]]]

\* MainWindow.comboConfig_activated
comboConfig_activated(s, probe, read) ==
    LET exc == ProbeExc(s, probe)
        s1  == AfterProbe(s)
    IN  IF exc = "AuthenticationError"
        THEN critical_msg(disconnect(s1), "Splunk connection reset", "")
        ELSE IF exc # "none" THEN Raise(s1, exc)
        ELSE LET s2 == NetCall(statusbar_msg(s1, "Polling configuration values"),
                               "get_configuration_kvpairs")
             IN  IF read # "none" THEN Raise(s2, read)
                 ELSE statusbar_msg(SetDisp(s2, {"editConfig"}, s2.disp.comboConfig),
                                    "Poll for configuration values complete")

\* the nine sub-polls of poll and the status line shown before each
SubPolls == << "poll_service_info", "poll_service_settings", "poll_service_messages",
               "get_service_confs", "get_services_admin_inputstatus",
               "poll_service_apps", "get_services_cluster_master",
               "get_services_shcluster", "get_services_server_status" >>

SubPollStatus == << "Polling service info...", "Polling settings...",
                    "Polling messages...", "Polling configurations...",
                    "Polling input status...", "Polling apps...",
                    "Polling cluster master info...",
                    "Polling search head cluster info...",
                    "Polling introspection..." >>

NumSubPolls == Len(SubPolls)

\* the sub-polls with each status line written after its call
RECURSIVE RunSubPolls_statusAfter(_, _, _)
RunSubPolls_statusAfter(s, i, n) ==
    IF i > n THEN s
    ELSE RunSubPolls_statusAfter(statusbar_msg(NetCall(s, SubPolls[i]), SubPollStatus[i]),
                                 i + 1, n)

\* lines 568-586: the sub-polls 1..n are started in order
RECURSIVE RunSubPolls(_, _, _)
RunSubPolls(s, i, n) ==
    IF i > n THEN s
    ELSE RunSubPolls(NetCall(statusbar_msg(s, SubPollStatus[i]), SubPolls[i]), i + 1, n)

Roles == {"cluster_master", "shc_member"}

ResourceFields == {"cpu", "mem", "swap", "processes", "disks"}

\* monitor['tcptype'] = t: the record with the field tcptype set to t
Tagged(monitor, t) ==
    [f \in DOMAIN monitor \cup {"tcptype"} |-> IF f = "tcptype" THEN t ELSE monitor[f]]

\* lines 683-689 with both loops tagging 'Raw'
MergeTcp_bothRaw(rawtcp_status, cookedtcp_status) ==
    [i \in 1..Len(rawtcp_status) |-> Tagged(rawtcp_status[i], "Raw")]
    \o [i \in 1..Len(cookedtcp_status) |-> Tagged(cookedtcp_status[i], "Raw")]

\* lines 683-689 of poll: tcpmonitors, the raw listeners then the cooked ones
MergeTcp(rawtcp_status, cookedtcp_status) ==
    [i \in 1..Len(rawtcp_status) |-> Tagged(rawtcp_status[i], "Raw")]
    \o [i \in 1..Len(cookedtcp_status) |-> Tagged(cookedtcp_status[i], "Cooked")]

\* Splunkd.cluster_peers_searchable, Splunkd.cluster_indexes_searchable: the
\* number of entries whose "fully searchable" flag is set
CountSearchable(collection) ==
    Cardinality({i \in 1..Len(collection) : collection[i].is_searchable})

\* lines 712-717 with the index complement taken against the peers
ClusterLabels_peersForIndexes(cluster_peers, peers_searchable, cluster_indexes, indexes_searchable) ==
    [known |-> TRUE,
     peersSearchable |-> peers_searchable,
     peersNotSearchable |-> Len(cluster_peers) - peers_searchable,
     indexesSearchable |-> indexes_searchable,
     indexesNotSearchable |-> Len(cluster_peers) - indexes_searchable,
     peersTotal |-> Len(cluster_peers),
     indexesTotal |-> Len(cluster_indexes)]

\* lines 712-730 of poll: the counts shown by the Indexer Cluster labels and
\* the number of rows of the peer and index tables
ClusterLabels(cluster_peers, peers_searchable, cluster_indexes, indexes_searchable) ==
    [known |-> TRUE,
     peersSearchable |-> peers_searchable,
     peersNotSearchable |-> Len(cluster_peers) - peers_searchable,
     indexesSearchable |-> indexes_searchable,
     indexesNotSearchable |-> Len(cluster_indexes) - indexes_searchable,
     peersTotal |-> Len(cluster_peers),
     indexesTotal |-> Len(cluster_indexes)]

\* lines 593-768 of poll: the display is filled from the data of poll g
Populate(s, g, in) ==
    LET s1 == SetDisp(statusbar_msg(s, "Populating GUI..."), {"top", "general"}, g)
        s2 == SetDisp(SetDisp(s1, {"comboConfig"}, g), {"editConfig"}, Placeholder)
        s3 == comboConfig_activated(s2, in.cfgProbe, in.cfgRead)
        s4 == [SetDisp(s3, {"inputs", "apps", "clusterChecks"}, g)
                  EXCEPT !.tables.tcp = MergeTcp(in.rawtcp, in.cookedtcp)]
        s5 == IF "cluster_master" \in in.roles
              THEN [SetDisp(s4, {"clusterTables"}, g)
                       EXCEPT !.tables.cluster =
                           ClusterLabels(in.cluster_peers,
                                         CountSearchable(in.cluster_peers),
                                         in.cluster_indexes,
                                         CountSearchable(in.cluster_indexes))]
              ELSE s4
        s6 == SetDisp(s5, {"shcChecks"}, g)
        s7 == IF "shc_member" \in in.roles
              THEN SetDisp(s6, {"shcTables"}, g) ELSE s6
        s8 == SetDisp(s7, in.truthy, g)
    IN  IF s3.raised # "none" THEN s3
        ELSE IF s3.splunkd = NoSplunkd THEN Raise(s3, "AttributeError")
        ELSE statusbar_msg(s8, "Last poll completed")

\* MainWindow.poll
poll(s, in) ==
    LET g   == s.pollCount + 1
        exc == ProbeExc(s, in.probe)
        s1  == AfterProbe([s EXCEPT !.pollCount = g])
        n   == IF in.failAt = 0 THEN NumSubPolls ELSE in.failAt
        s2  == RunSubPolls(s1, 1, n)
    IN  IF exc = "AuthenticationError"
        THEN critical_msg(disconnect(s1), "Splunk connection reset", "")
        ELSE IF exc = "socket.error"
        THEN critical_msg(disconnect(s1),
                          "Socket error while attempting to poll splunkd", "cause")
        ELSE IF exc # "none"
        THEN critical_msg(disconnect(s1),
                          "Unknown error while attempting to poll splunkd", "")
        ELSE IF in.failAt = 0 THEN Populate(s2, g, in)
        ELSE IF in.failKind = "socket.error"
        THEN critical_msg(disconnect(s2),
                          "Socket error while attempting to poll splunkd", "cause")
        ELSE Raise(s2, in.failKind)

\* the data a poll returns: the roles of the instance and the resource
\* figures that are neither zero, empty nor absent
Snapshots ==
    { [roles |-> Roles, truthy |-> ResourceFields],
      [roles |-> {}, truthy |-> {}],
      [roles |-> {"cluster_master"}, truthy |-> {"cpu", "processes"}],
      [roles |-> {"shc_member"}, truthy |-> {"mem", "swap", "disks"}] }

\* what the server does during one poll: the outcome of the probe, the
\* sub-poll that fails (0: none) and how, the outcomes of the configuration
\* read made while the display is filled, and the data returned
PollIn(probe, failAt, failKind, cfgProbe, cfgRead, roles, truthy) ==
    [probe |-> probe, failAt |-> failAt, failKind |-> failKind,
     cfgProbe |-> cfgProbe, cfgRead |-> cfgRead, roles |-> roles, truthy |-> truthy,
     rawtcp |-> <<>>, cookedtcp |-> <<>>, cluster_peers |-> <<>>, cluster_indexes |-> <<>>]

\* a poll that succeeds on a cluster master and returns these collections
DataIn(rawtcp, cookedtcp, cluster_peers, cluster_indexes) ==
    [PollIn("none", 0, "none", "none", "none", {"cluster_master"}, {})
        EXCEPT !.rawtcp = rawtcp, !.cookedtcp = cookedtcp,
               !.cluster_peers = cluster_peers, !.cluster_indexes = cluster_indexes]

PollInputs ==
    {PollIn(p, 0, "none", "none", "none", {}, {}) : p \in Failures}
    \cup {PollIn("none", k, f, "none", "none", {}, {}) :
              k \in 1..NumSubPolls, f \in Failures}
    \cup {PollIn("none", 0, "none", c, "none", {}, {}) : c \in Failures}
    \cup {PollIn("none", 0, "none", "none", "Exception", {}, {})}
    \cup {PollIn("none", 0, "none", "none", "none", d.roles, d.truthy) : d \in Snapshots}

(***************************************************************************)
(* connect                                                                 *)
(***************************************************************************)
DefaultPort == 8089

\* the checks of connect with the port test written 0 <= port <= 65536
ConnectCheck_loosePort(addr, user, pass) ==
    LET splunk_host == Strip(addr)
        splunk_user == Strip(user)
        splunk_pass == Strip(pass)
        parts       == Split(addr, ":")
        R(kind, msg, host, port) ==
            [kind |-> kind, msg |-> msg, host |-> host, port |-> port,
             user |-> splunk_user, pass |-> splunk_pass]
    IN  IF splunk_host = <<>> THEN R("warning", "Missing Splunk address", <<>>, 0)
        ELSE IF splunk_user = <<>> THEN R("warning", "Missing Splunk username", <<>>, 0)
        ELSE IF splunk_pass = <<>> THEN R("warning", "Missing Splunk password", <<>>, 0)
        ELSE IF Contains(splunk_host, ":")
        THEN IF Len(parts) # 2 THEN R("ValueError", "", <<>>, 0)
             ELSE IF ~IsIntText(parts[2]) THEN R("ValueError", "", <<>>, 0)
             ELSE IF ~(0 <= ParseInt(parts[2]) /\ ParseInt(parts[2]) <= 65536)
             THEN R("warning", "Invalid port specified", parts[1], ParseInt(parts[2]))
             ELSE R("ok", "", parts[1], ParseInt(parts[2]))
        ELSE R("ok", "", splunk_host, DefaultPort)

\* lines 397-418 of connect: the checks made before the Session is created.
\* kind is "warning" (a message is shown, connect returns), "ValueError"
\* (split or int raised) or "ok" (host and port are handed to Splunkd)
ConnectCheck(addr, user, pass) ==
    LET splunk_host == Strip(addr)
        splunk_user == Strip(user)
        splunk_pass == Strip(pass)
        parts       == Split(addr, ":")
        R(kind, msg, host, port) ==
            [kind |-> kind, msg |-> msg, host |-> host, port |-> port,
             user |-> splunk_user, pass |-> splunk_pass]
    IN  IF splunk_host = <<>> THEN R("warning", "Missing Splunk address", <<>>, 0)
        ELSE IF splunk_user = <<>> THEN R("warning", "Missing Splunk username", <<>>, 0)
        ELSE IF splunk_pass = <<>> THEN R("warning", "Missing Splunk password", <<>>, 0)
        ELSE IF Contains(splunk_host, ":")
        THEN IF Len(parts) # 2 THEN R("ValueError", "", <<>>, 0)
             ELSE IF ~IsIntText(parts[2]) THEN R("ValueError", "", <<>>, 0)
             ELSE IF ~(0 < ParseInt(parts[2]) /\ ParseInt(parts[2]) < 65536)
             THEN R("warning", "Invalid port specified", parts[1], ParseInt(parts[2]))
             ELSE R("ok", "", parts[1], ParseInt(parts[2]))
        ELSE R("ok", "", splunk_host, DefaultPort)

ConnectFailures == {"AuthenticationError", "socket.gaierror", "socket.error", "Exception"}

\* connect with the widgets toggled (lines 439-445) before the Session is created
connect_toggleFirst(s, addr, user, pass, created, in) ==
    LET c    == ConnectCheck(addr, user, pass)
        args == [host |-> c.host, port |-> c.port, user |-> c.user, pass |-> c.pass]
        s1   == NetCall(statusbar_msg([s EXCEPT !.ui = UiConnected(@)],
                                      "Connecting to host"), "Splunkd")
        s2   == statusbar_msg([s1 EXCEPT !.sent.connect = Append(@, args)],
                              "Connection failed")
        s3   == statusbar_msg(
                    [s2 EXCEPT !.splunkd = [id |-> s.pollCount + 1] @@ args,
                               !.ui = UiConnected(@)],
                    "Connected")
        s4   == poll(s3, in)
    IN  IF c.kind = "warning" THEN warning_msg(s, c.msg)
        ELSE IF c.kind = "ValueError" THEN Raise(s, "ValueError")
        ELSE IF created = "AuthenticationError"
        THEN statusbar_msg(warning_msg([s1 EXCEPT !.sent.connect = Append(@, args)],
                                       "Authentication error connecting to host"),
                           "Connection failed")
        ELSE IF created \in {"socket.gaierror", "socket.error"}
        THEN statusbar_msg(warning_msg([s1 EXCEPT !.sent.connect = Append(@, args)],
                                       "Unable to connect to host"),
                           "Connection failed")
        ELSE IF created # "none" THEN Raise(s2, created)
        ELSE IF s4.raised # "none" THEN s4
        ELSE IF s4.splunkd = NoSplunkd THEN Raise(s4, "AttributeError")
        ELSE [s4 EXCEPT !.ui.windowTitle = s4.splunkd.id]

\* MainWindow.connect; created is the outcome of Splunkd(...), in of the poll
connect(s, addr, user, pass, created, in) ==
    LET c    == ConnectCheck(addr, user, pass)
        args == [host |-> c.host, port |-> c.port, user |-> c.user, pass |-> c.pass]
        s1   == NetCall(statusbar_msg(s, "Connecting to host"), "Splunkd")
        s2   == statusbar_msg([s1 EXCEPT !.sent.connect = Append(@, args)],
                              "Connection failed")
        s3   == statusbar_msg(
                    [s2 EXCEPT !.splunkd = [id |-> s.pollCount + 1] @@ args,
                               !.ui = UiConnected(@)],
                    "Connected")
        s4   == poll(s3, in)
    IN  IF c.kind = "warning" THEN warning_msg(s, c.msg)
        ELSE IF c.kind = "ValueError" THEN Raise(s, "ValueError")
        ELSE IF created = "AuthenticationError"
        THEN statusbar_msg(warning_msg([s1 EXCEPT !.sent.connect = Append(@, args)],
                                       "Authentication error connecting to host"),
                           "Connection failed")
        ELSE IF created \in {"socket.gaierror", "socket.error"}
        THEN statusbar_msg(warning_msg([s1 EXCEPT !.sent.connect = Append(@, args)],
                                       "Unable to connect to host"),
                           "Connection failed")
        ELSE IF created # "none" THEN Raise(s2, created)
        ELSE IF s4.raised # "none" THEN s4
        ELSE IF s4.splunkd = NoSplunkd THEN Raise(s4, "AttributeError")
        ELSE [s4 EXCEPT !.ui.windowTitle = s4.splunkd.id]

\* buttonToggle_clicked with the test of self.splunkd left out
buttonToggle_clicked_alwaysConnect(s, addr, user, pass, created, in) ==
    connect(s, addr, user, pass, created, in)

\* MainWindow.buttonToggle_clicked
buttonToggle_clicked(s, addr, user, pass, created, in) ==
    IF s.splunkd = NoSplunkd
    THEN connect(s, addr, user, pass, created, in)
    ELSE disconnect(s)

(***************************************************************************)
(* Menu and button slots                                                   *)
(***************************************************************************)
\* lines 852-858, 871-877, 945-951, 1024-1030: the probe that opens a slot
\* other than poll; only AuthenticationError is caught
ProbeGuard(s, probe) ==
    LET exc == ProbeExc(s, probe)
        s1  == AfterProbe(s)
    IN  IF exc = "AuthenticationError"
        THEN critical_msg(disconnect(s1), "Splunk connection reset", "")
        ELSE IF exc # "none" THEN Raise(s1, exc)
        ELSE s1

\* the probe let the slot go on
ProbePassed(s, probe) == ProbeExc(s, probe) = "none"

question_msg_yesno(s, msg) == Log(s, "question", msg, "")

\* the restart slot with the answer to the question ignored
actionRestartSplunkd_clicked_noAsk(s, probe, yes, restarted) ==
    LET s1 == question_msg_yesno(ProbeGuard(s, probe), "restart splunkd?")
        s2 == NetCall(s1, "service.restart")
    IN  IF ~ProbePassed(s, probe) THEN ProbeGuard(s, probe)
        ELSE IF restarted = "none" THEN disconnect(s2)
        ELSE critical_msg(s2, "Error while attempting to restart splunkd", "")

\* MainWindow.actionRestartSplunkd_clicked
actionRestartSplunkd_clicked(s, probe, yes, restarted) ==
    LET s1 == question_msg_yesno(ProbeGuard(s, probe), "restart splunkd?")
        s2 == NetCall(s1, "service.restart")
    IN  IF ~ProbePassed(s, probe) THEN ProbeGuard(s, probe)
        ELSE IF ~yes THEN s1
        ELSE IF restarted = "none" THEN disconnect(s2)
        ELSE critical_msg(s2, "Error while attempting to restart splunkd", "")

\* MainWindow.actionRefreshConfigurations_clicked
actionRefreshConfigurations_clicked(s, probe, yes, refreshed) ==
    LET s1 == question_msg_yesno(ProbeGuard(s, probe), "refresh configurations?")
        s2 == NetCall(statusbar_msg(s1, "Refreshing configurations..."), "refresh_config")
    IN  IF ~ProbePassed(s, probe) THEN ProbeGuard(s, probe)
        ELSE IF ~yes THEN s1
        ELSE IF refreshed = "none"
        THEN Log(statusbar_msg(s2, ""), "information", "Configuration refresh complete.", "")
        ELSE critical_msg(s2, "Unable to refresh configuration", "cause")

DeploymentUri == <<"/services/properties/deploymentclient/target-broker:deploymentServer">>

Request(uri, method, body, params) ==
    [uri |-> uri, method |-> method, body |-> body, params |-> params]

NoParams == [k \in {} |-> <<>>]

\* what the server answers to the deployment-client post
Replies == {[type |-> t, modified0 |-> m] : t \in {"INFO", "ERROR"}, m \in BOOLEAN}

\* result_msg, the text of the server's message; modified0: it holds
\* 'modified 0 key'
ReplyText(reply) == IF reply.modified0 THEN "modified 0 key" ELSE "modified 1 key"

\* the slot with the "return" after the "no changes made" message left out
actionChangeDeploymentServer_clicked_noReturn(s, probe, ok, target, yes, posted, reply, restarted, in) ==
    LET s1   == Log(ProbeGuard(s, probe), "input", "Enter new Deployment Server URI", "")
        disabled  == IF target # <<>> THEN "0" ELSE "1"
        targeturi == IF target # <<>> THEN target ELSE <<>>
        body == <<"disabled", "=", disabled, "&", "targetUri", "=">> \o targeturi
        s2   == question_msg_yesno(s1, "Perform the following actions?")
        s3   == NetCall([s2 EXCEPT !.sent.rest =
                            Append(@, Request(DeploymentUri, "POST", body, NoParams))],
                        "rest_call")
        s4m  == NetCall(IF reply.modified0
                        THEN critical_msg(s3, "Splunkd reports no changes made to deployment server URI",
                                          ReplyText(reply))
                        ELSE s3,
                        "service.restart")
        err  == "Error while attempting to restart splunkd"
    IN  IF ~ProbePassed(s, probe) THEN ProbeGuard(s, probe)
        ELSE IF ~ok THEN s1
        ELSE IF ~yes THEN poll(s2, in)
        ELSE IF posted # "none" THEN critical_msg(s3, err, "")
        ELSE IF reply.type # "INFO"
        THEN critical_msg(s3, "Error while attempting to modify deployment server URI",
                          ReplyText(reply))
        ELSE IF restarted # "none" THEN critical_msg(s4m, err, "")
        ELSE statusbar_msg(disconnect(s4m),
                           "Disconnected while splunkd is restarting, try reconnecting in a few moments")

\* MainWindow.actionChangeDeploymentServer_clicked
actionChangeDeploymentServer_clicked(s, probe, ok, target, yes, posted, reply, restarted, in) ==
    LET s1   == Log(ProbeGuard(s, probe), "input", "Enter new Deployment Server URI", "")
        disabled  == IF target # <<>> THEN "0" ELSE "1"
        targeturi == IF target # <<>> THEN target ELSE <<>>
        body == <<"disabled", "=", disabled, "&", "targetUri", "=">> \o targeturi
        s2   == question_msg_yesno(s1, "Perform the following actions?")
        s3   == NetCall([s2 EXCEPT !.sent.rest =
                            Append(@, Request(DeploymentUri, "POST", body, NoParams))],
                        "rest_call")
        s4   == NetCall(s3, "service.restart")
        err  == "Error while attempting to restart splunkd"
    IN  IF ~ProbePassed(s, probe) THEN ProbeGuard(s, probe)
        ELSE IF ~ok THEN s1
        ELSE IF ~yes THEN poll(s2, in)
        ELSE IF posted # "none" THEN critical_msg(s3, err, "")
        ELSE IF reply.type # "INFO"
        THEN critical_msg(s3, "Error while attempting to modify deployment server URI",
                          ReplyText(reply))
        ELSE IF reply.modified0
        THEN critical_msg(s3, "Splunkd reports no changes made to deployment server URI",
                          ReplyText(reply))
        ELSE IF restarted # "none" THEN critical_msg(s4, err, "")
        ELSE statusbar_msg(disconnect(s4),
                           "Disconnected while splunkd is restarting, try reconnecting in a few moments")

(***************************************************************************)
(* Ad-hoc REST send                                                        *)
(***************************************************************************)
\* lines 1042-1044: the pairs are read left to right into a dict; a pair
\* without exactly one '=' cannot be unpacked (ValueError)
PairsOk(pairs) == \A i \in 1..Len(pairs) : Len(Split(pairs[i], "=")) = 2

RECURSIVE ParamsOf(_, _)
ParamsOf(pairs, acc) ==
    IF pairs = <<>> THEN acc
    ELSE LET kv == Split(Head(pairs), "=")
         IN  ParamsOf(Tail(pairs),
                      [k \in DOMAIN acc \cup {kv[1]} |->
                          IF k = kv[1] THEN kv[2] ELSE acc[k]])

\* lines 1039-1047: kind is "ValueError" or "ok"
ParseUri(text) ==
    LET parts == Split(text, "?")
        pairs == Split(parts[2], "&")
    IN  IF ~Contains(text, "?")
        THEN [kind |-> "ok", uri |-> text, params |-> NoParams]
        ELSE IF Len(parts) # 2 \/ ~PairsOk(pairs)
        THEN [kind |-> "ValueError", uri |-> text, params |-> NoParams]
        ELSE [kind |-> "ok", uri |-> parts[1], params |-> ParamsOf(pairs, NoParams)]

\* line 1051 passes output_format and body_input by keyword next to
\* **parameters: a parameter of the same name is a TypeError at the call
CallKeywords == {<<"output_format">>, <<"body_input">>}

KeywordClash(params) == DOMAIN params \cap CallKeywords # {}

\* the send with the "return" after the parsing warning left out
buttonRestSend_clicked_noReturn(s, probe, method, text, body, answered) ==
    LET s0  == ProbeGuard(s, probe)
        p   == ParseUri(text)
        s1  == IF p.kind = "ValueError"
               THEN warning_msg(s0, "Unable to parse parameters in URI, check formatting")
               ELSE s0
        req == Request(p.uri, method, body, p.params)
        s2  == NetCall([s1 EXCEPT !.sent.rest = Append(@, req)], "rest_call")
        s3  == [s2 EXCEPT !.rest.result = <<req>>]
    IN  IF ~ProbePassed(s, probe) THEN s0
        ELSE IF KeywordClash(p.params) THEN s1
        ELSE IF answered # "none" THEN s2
        ELSE IF \E i \in 1..Len(s3.rest.history) : s3.rest.history[i] = text THEN s3
        ELSE [s3 EXCEPT !.rest.history = Append(@, text)]

\* the send with the answer written to editConfig as well
buttonRestSend_clicked_wrongWidget(s, probe, method, text, body, answered) ==
    LET s1  == ProbeGuard(s, probe)
        p   == ParseUri(text)
        req == Request(p.uri, method, body, p.params)
        s2  == NetCall([s1 EXCEPT !.sent.rest = Append(@, req)], "rest_call")
        s3  == SetDisp([s2 EXCEPT !.rest.result = <<req>>], {"editConfig"}, Placeholder)
    IN  IF ~ProbePassed(s, probe) THEN s1
        ELSE IF p.kind = "ValueError"
        THEN warning_msg(s1, "Unable to parse parameters in URI, check formatting")
        ELSE IF KeywordClash(p.params) THEN s1
        ELSE IF answered # "none" THEN s2
        ELSE IF \E i \in 1..Len(s3.rest.history) : s3.rest.history[i] = text THEN s3
        ELSE [s3 EXCEPT !.rest.history = Append(@, text)]

\* MainWindow.buttonRestSend_clicked
buttonRestSend_clicked(s, probe, method, text, body, answered) ==
    LET s1  == ProbeGuard(s, probe)
        p   == ParseUri(text)
        req == Request(p.uri, method, body, p.params)
        s2  == NetCall([s1 EXCEPT !.sent.rest = Append(@, req)], "rest_call")
        s3  == [s2 EXCEPT !.rest.result = <<req>>]
    IN  IF ~ProbePassed(s, probe) THEN s1
        ELSE IF p.kind = "ValueError"
        THEN warning_msg(s1, "Unable to parse parameters in URI, check formatting")
        ELSE IF KeywordClash(p.params) THEN s1
        ELSE IF answered # "none" THEN s2
        ELSE IF \E i \in 1..Len(s3.rest.history) : s3.rest.history[i] = text THEN s3
        ELSE [s3 EXCEPT !.rest.history = Append(@, text)]

(***************************************************************************)
(* Inputs: what the user types and what the server answers.                *)
(***************************************************************************)
AddressTexts ==
    { <<>>, <<" ">>, <<"h">>,
      <<"h", ":", "8", "0", "8", "9">>,
      <<":", "8", "0", "8", "9">>,
      <<"h", ":", "0">>,
      <<"h", ":", "6", "5", "5", "3", "5">>,
      <<"h", ":", "6", "5", "5", "3", "6">>,
      <<"h", ":", "-", "1">>,
      <<"h", ":", "x">>,
      <<"h", ":">>,
      <<"h", ":", "1", ":", "2">>,
      <<" ", "h", ":", "8", "0", " ">> }

UserTexts == { <<>>, <<" ">>, <<"u">> }

PassTexts == { <<>>, <<" ">>, <<"p">> }

\* the few texts the specification of the whole window connects with
FewAddresses == { <<"h">> }

FewUsers == { <<"u">> }

FewPasses == { <<"p">> }

\* one poll that succeeds and one of each kind of failure
FewPollInputs ==
    { PollIn("none", 0, "none", "none", "none", Roles, ResourceFields),
      PollIn("socket.error", 0, "none", "none", "none", {}, {}),
      PollIn("none", 1, "AuthenticationError", "none", "none", {}, {}) }

NoPollIn == PollIn("none", 0, "none", "none", "none", {}, {})

RECURSIVE Join(_, _)
Join(pieces, sep) ==
    IF pieces = <<>> THEN <<>>
    ELSE IF Len(pieces) = 1 THEN pieces[1]
    ELSE pieces[1] \o <<sep>> \o Join(Tail(pieces), sep)

\* the text path?k1=v1&...&kn=vn
BuildUri(path, kvs) ==
    path \o <<"?">> \o Join([i \in 1..Len(kvs) |-> kvs[i][1] \o <<"=">> \o kvs[i][2]], "&")

\* endpoint.0 of the default configuration
RestPath == <<"/", "services", "/", "server", "/", "info">>

PresetUris == {RestPath}

ParamKeys == { <<"a">>, <<"b">>, <<"output_format">> }

ParamValues == { <<"1">>, <<"2">> }

KVs == ParamKeys \X ParamValues

\* one pair, or two
KVLists == {<<x>> : x \in KVs} \cup {<<x, y>> : x \in KVs, y \in KVs}

WellFormedUris == {BuildUri(RestPath, kvs) : kvs \in KVLists}

MalformedUris ==
    { RestPath \o <<"?", "bad">>,
      RestPath \o <<"?">>,
      RestPath \o <<"?", "a", "=", "1", "&", "bad">>,
      RestPath \o <<"?", "a", "=", "1", "&">>,
      RestPath \o <<"?", "bad", "&", "a", "=", "1">>,
      RestPath \o <<"?", "a", "=", "1", "=", "2">>,
      RestPath \o <<"?", "a", "=", "1", "?", "b", "=", "2">> }

RestUriTexts == {RestPath} \cup WellFormedUris \cup MalformedUris

GoodUri == RestPath \o <<"?", "a", "=", "1">>

FewUris == { GoodUri, RestPath \o <<"?", "bad">> }

Methods == {"GET", "POST"}

Bodies == { <<"x", "=", "1">> }

Targets == { <<>>, <<"d", ":", "8", "0", "8", "9">> }

\* the lists of at most MaxRows entries drawn from S
ListsOf(S) == UNION {[1..n -> S] : n \in 0..MaxRows}

\* entries of rawtcp_status and cookedtcp_status; the last one already
\* carries a tcptype field
TcpMonitors ==
    { [port |-> "9997", source |-> "a", opened |-> "t1"],
      [port |-> "514", source |-> "b", opened |-> "t2"],
      [port |-> "9997", source |-> "a", opened |-> "t1", tcptype |-> "Old"] }

\* entries of cluster_peers and of cluster_indexes
ClusterEntries == {[name |-> "n", is_searchable |-> b] : b \in BOOLEAN}

\* successful polls of a cluster master with every TCP listener collection,
\* and with every peer and index collection
DataPollInputs ==
    {DataIn(r, c, <<>>, <<>>) : r \in ListsOf(TcpMonitors), c \in ListsOf(TcpMonitors)}
    \cup {DataIn(<<>>, <<>>, p, x) : p \in ListsOf(ClusterEntries),
                                     x \in ListsOf(ClusterEntries)}

FewDataInputs ==
    { DataIn(<<>>, <<>>, <<>>, <<>>),
      PollIn("none", 0, "none", "none", "none", {}, {}) }

(***************************************************************************)
(* Specification                                                           *)
(***************************************************************************)
NoOp ==
    [name |-> "__init__", repeated |-> FALSE, addr |-> <<>>, user |-> <<>>, pass |-> <<>>,
     created |-> "none", probe |-> "none", in |-> NoPollIn,
     yes |-> FALSE, ok |-> FALSE, target |-> <<>>, outcome |-> "none",
     reply |-> [type |-> "INFO", modified0 |-> FALSE], restarted |-> "none",
     method |-> "", uri |-> <<>>, body |-> <<>>]

\* the record of slot name; repeated: the slot before it was the same one
Slot(name) == [NoOp EXCEPT !.name = name, !.repeated = (op.name = name)]

\* a slot starts with nothing logged
Begin(s) == [s EXCEPT !.trace = <<>>, !.sent = NoSent, !.raised = "none"]

\* the window after the slot
Becomes(s) ==
    /\ splunkd' = s.splunkd
    /\ ui' = s.ui
    /\ disp' = s.disp
    /\ tables' = s.tables
    /\ rest' = s.rest
    /\ pollCount' = s.pollCount
    /\ trace' = s.trace
    /\ sent' = s.sent
    /\ raised' = s.raised

\* MainWindow.__init__: the window is built and disconnect() is called
InitWith(A, U, P, R, M, H) ==
    /\ form \in [address : A, username : U, password : P,
                  uri : R, method : M, body : Bodies]
    /\ splunkd = NoSplunkd
    /\ ui = UiDisconnected
    /\ disp = [f \in DispFields |-> Placeholder]
    /\ tables = NoTables
    /\ rest \in [result : {<<>>}, history : H]
    /\ pollCount = 0
    /\ trace = <<Event("status", "Disconnected", "")>>
    /\ sent = NoSent
    /\ raised = "none"
    /\ op = NoOp

Init == InitWith(FewAddresses, FewUsers, FewPasses, {GoodUri}, {"GET"}, {<<>>})

\* buttonToggle_clicked with no Session: connect with the texts of the form
Connect(PI) ==
    /\ splunkd = NoSplunkd
    /\ pollCount < MaxPolls
    /\ \E created \in (IF ConnectCheck(form.address, form.username, form.password).kind = "ok"
                        THEN {"none"} \cup ConnectFailures ELSE {"none"}) :
       \E in \in (IF ConnectCheck(form.address, form.username, form.password).kind = "ok"
                      /\ created = "none"
                   THEN PI ELSE {NoPollIn}) :
          /\ Becomes(buttonToggle_clicked(Begin(Cur), form.address, form.username,
                                          form.password, created, in))
          /\ op' = [Slot("connect") EXCEPT !.addr = form.address,
                                           !.user = form.username,
                                           !.pass = form.password,
                                           !.created = created, !.in = in]
    /\ UNCHANGED form

\* buttonToggle_clicked with a Session: disconnect
Disconnect ==
    /\ UNCHANGED form
    /\ splunkd # NoSplunkd
    /\ Becomes(buttonToggle_clicked(Begin(Cur), form.address, form.username,
                                    form.password, "none", NoPollIn))
    /\ op' = Slot("disconnect")

\* disconnect() called with no Session, as __init__ does
DisconnectAgain ==
    /\ UNCHANGED form
    /\ splunkd = NoSplunkd
    /\ Becomes(disconnect(Begin(Cur)))
    /\ op' = Slot("disconnect")

\* buttonPoll clicked
Poll(PI) ==
    /\ UNCHANGED form
    /\ ui.buttonPoll
    /\ pollCount < MaxPolls
    /\ \E in \in PI :
         /\ Becomes(poll(Begin(Cur), in))
         /\ op' = [Slot("poll") EXCEPT !.probe = in.probe, !.in = in]

\* a file is picked in comboConfig
ComboConfig ==
    /\ UNCHANGED form
    /\ ui.tabWidgetMain
    /\ \E probe \in Outcomes :
         \E read \in (IF probe = "none" THEN {"none", "Exception"} ELSE {"none"}) :
            /\ Becomes(comboConfig_activated(Begin(Cur), probe, read))
            /\ op' = [Slot("comboConfig") EXCEPT !.probe = probe,
                                  !.outcome = read]

\* the inputs after the probe are drawn only when the probe lets the slot go on
After(probe, S, default) == IF ProbePassed(Cur, probe) THEN S ELSE {default}

\* menu: restart splunkd
Restart ==
    \E probe \in Outcomes :
    \E yes \in After(probe, BOOLEAN, FALSE) :
    \E restarted \in (IF yes THEN {"none", "socket.error"} ELSE {"none"}) :
        /\ Becomes(actionRestartSplunkd_clicked(Begin(Cur), probe, yes, restarted))
        /\ op' = [Slot("restart") EXCEPT !.probe = probe, !.yes = yes,
                              !.restarted = restarted]
        /\ UNCHANGED form

\* menu: refresh configurations
Refresh ==
    \E probe \in Outcomes :
    \E yes \in After(probe, BOOLEAN, FALSE) :
    \E refreshed \in (IF yes THEN Outcomes ELSE {"none"}) :
        /\ Becomes(actionRefreshConfigurations_clicked(Begin(Cur), probe, yes, refreshed))
        /\ op' = [Slot("refresh") EXCEPT !.probe = probe, !.yes = yes,
                              !.outcome = refreshed]
        /\ UNCHANGED form

\* menu: change deployment server
ChangeDeploymentServer(PI) ==
    \E probe \in Outcomes :
    \E ok \in After(probe, BOOLEAN, FALSE) :
    \E target \in (IF ok THEN Targets ELSE {<<>>}) :
    \E yes \in (IF ok THEN BOOLEAN ELSE {FALSE}) :
    \E posted \in (IF yes THEN {"none", "socket.error"} ELSE {"none"}) :
    \E reply \in (IF yes /\ posted = "none" THEN Replies ELSE {NoOp.reply}) :
    \E restarted \in (IF yes /\ posted = "none" /\ reply = NoOp.reply
                       THEN {"none", "socket.error"} ELSE {"none"}) :
    \E in \in (IF ok /\ ~yes THEN PI ELSE {NoPollIn}) :
        /\ (ok /\ ~yes) => pollCount < MaxPolls
        /\ Becomes(actionChangeDeploymentServer_clicked(Begin(Cur), probe, ok, target,
                                                        yes, posted, reply, restarted, in))
        /\ op' = [Slot("changeDeploymentServer") EXCEPT !.probe = probe,
                              !.ok = ok, !.target = target, !.yes = yes,
                              !.outcome = posted, !.reply = reply,
                              !.restarted = restarted, !.in = in]
        /\ UNCHANGED form

\* the entries of the URI history that the user added
Added(history) == {i \in 1..Len(history) : history[i] \notin PresetUris}

\* REST tab: send
RestSend ==
    /\ ui.tabWidgetMain
    /\ \E probe \in Outcomes :
       \E answered \in After(probe, {"none", "socket.error"}, "none") :
         LET after == buttonRestSend_clicked(Begin(Cur), probe, form.method, form.uri,
                                             form.body, answered)
         IN  /\ Cardinality(Added(after.rest.history)) <= MaxHistory
             /\ Becomes(after)
             /\ op' = [Slot("restSend") EXCEPT !.probe = probe, !.method = form.method,
                                               !.uri = form.uri, !.body = form.body,
                                               !.outcome = answered]
    /\ UNCHANGED form

\* the user types another URI in comboRestURI: no slot runs
EditRestURI(U) ==
    /\ ui.tabWidgetMain
    /\ \E text \in U \ {form.uri} : form' = [form EXCEPT !.uri = text]
    /\ Becomes(Begin(Cur))
    /\ op' = Slot("editRestURI")

Next ==
    \/ Connect(PollInputs)
    \/ Disconnect
    \/ DisconnectAgain
    \/ Poll(PollInputs)
    \/ ComboConfig
    \/ Restart
    \/ Refresh
    \/ ChangeDeploymentServer(FewPollInputs)
    \/ EditRestURI(FewUris)
    \/ RestSend

Spec == Init /\ [][Next]_vars

\* the connection form alone, with every address, user and password text
NextConnect ==
    \/ Connect(FewPollInputs)
    \/ Disconnect

InitConnect == InitWith(AddressTexts, UserTexts, PassTexts, {GoodUri}, {"GET"}, {<<>>})

SpecConnect == InitConnect /\ [][NextConnect]_vars

\* the REST tab alone, with every URI text
NextRest ==
    \/ Connect({NoPollIn})
    \/ Disconnect
    \/ EditRestURI(FewUris)
    \/ RestSend

InitRest == InitWith(FewAddresses, FewUsers, FewPasses, RestUriTexts, Methods,
                     {<<>>, <<RestPath>>})

SpecRest == InitRest /\ [][NextRest]_vars

\* polls alone, with every collection of TCP listeners, peers and indexes
NextData ==
    \/ Connect(DataPollInputs)
    \/ Disconnect
    \/ Poll(FewDataInputs)

SpecData == Init /\ [][NextData]_vars

(***************************************************************************)
(* Properties                                                              *)
(***************************************************************************)
\* the names of the network calls of the last slot, in order
CallNames == [i \in 1..Len(Calls(trace)) |-> Calls(trace)[i].name]

IsSubPoll(n) == \E i \in 1..NumSubPolls : SubPolls[i] = n

SubPollsRun == SelectSeq(CallNames, IsSubPoll)

\* the last slot ran poll with the server behaving as op.in: the poll button,
\* or a connect that created its Session
RanPoll ==
    \/ op.name = "poll"
    \/ op.name = "connect" /\ op.created = "none" /\ sent.connect # <<>>

\* what the display shows when all of it comes from poll g with data in
NewDisplay(g, in) ==
    [f \in DispFields |->
        IF f = "clusterTables" THEN (IF "cluster_master" \in in.roles THEN g ELSE Placeholder)
        ELSE IF f = "shcTables" THEN (IF "shc_member" \in in.roles THEN g ELSE Placeholder)
        ELSE IF f \in ResourceFields THEN (IF f \in in.truthy THEN g ELSE Placeholder)
        ELSE g]

AllPlaceholders == \A f \in DispFields : disp[f] = Placeholder

\* C1: a sub-poll that fails with an authentication or a socket failure
\* stops the poll at that step (no later sub-poll runs) and the Session is
\* torn down
C1_SubPollFailureTearsDown ==
    (/\ RanPoll
     /\ op.in.probe = "none"
     /\ op.in.failAt # 0
     /\ op.in.failKind \in {"AuthenticationError", "socket.error"})
    => /\ splunkd = NoSplunkd
       /\ SubPollsRun = SubSeq(SubPolls, 1, op.in.failAt)

\* C2: after a poll the display is either entirely the data of that poll,
\* all of whose steps succeeded, or entirely placeholders with the Session
\* torn down
C2_DisplayAllNewOrAllReset ==
    RanPoll =>
        \/ /\ op.in.probe = "none" /\ op.in.failAt = 0
           /\ op.in.cfgProbe = "none" /\ op.in.cfgRead = "none"
           /\ disp = NewDisplay(pollCount, op.in)
        \/ /\ splunkd = NoSplunkd
           /\ AllPlaceholders

\* the address has the form host:port with an integer port outside 1..65535
InvalidPort(addr) ==
    LET parts == Split(addr, ":")
    IN  /\ Len(parts) = 2
        /\ IsIntText(parts[2])
        /\ ParseInt(parts[2]) \notin 1..65535

\* C3: connect with an empty username, an empty password or a port outside
\* 1..65535 shows one warning, constructs no Session, issues no network
\* call, and the state stays Disconnected
C3_InvalidFormRejected ==
    (/\ op.name = "connect"
     /\ \/ Strip(op.user) = <<>>
        \/ Strip(op.pass) = <<>>
        \/ InvalidPort(op.addr))
    => /\ Len(Dialogs(trace)) = 1
       /\ Dialogs(trace)[1].kind = "warning"
       /\ Calls(trace) = <<>>
       /\ sent.connect = <<>>
       /\ splunkd = NoSplunkd
       /\ raised = "none"

C3_Witness ==
    /\ op.name = "connect"
    /\ InvalidPort(op.addr)
    /\ Strip(op.user) # <<>>
    /\ Strip(op.pass) # <<>>
    /\ Len(Dialogs(trace)) = 1
    /\ Dialogs(trace)[1].name = "Invalid port specified"

\* C4: whenever connect reaches the call that creates the Session, host,
\* username and password are non-empty and the port is in 1..65535
C4_SessionArgumentsValid ==
    \A i \in 1..Len(sent.connect) :
        /\ sent.connect[i].host # <<>>
        /\ sent.connect[i].user # <<>>
        /\ sent.connect[i].pass # <<>>
        /\ sent.connect[i].port \in 1..65535

ProbeSlots == {"poll", "restart", "refresh", "comboConfig",
               "changeDeploymentServer", "restSend"}

\* C5: in every slot that begins with the liveness probe, a probe failing
\* with an authentication or a socket error moves the state to
\* Disconnected and the slot does nothing further
C5_FailedProbeDisconnects ==
    (/\ op.name \in ProbeSlots
     /\ op.probe \in {"AuthenticationError", "socket.error"}
     /\ Calls(trace) # <<>>)
    => /\ splunkd = NoSplunkd
       /\ CallNames = <<"service.settings">>

\* C6: an exception during polling that is neither an authentication nor a
\* socket error, raised by the probe or by a sub-poll, tears the Session down
C6_UnknownFailureTearsDown ==
    (/\ RanPoll
     /\ \/ op.in.probe = "Exception"
        \/ op.in.probe = "none" /\ op.in.failAt # 0 /\ op.in.failKind = "Exception")
    => splunkd = NoSplunkd

\* the window without the log of the last slot
Window == <<splunkd, ui, disp, tables, rest>>

\* C7: disconnect, on a live Session, on a disconnected one or before any
\* connect, raises nothing and leaves the state Disconnected; a second
\* disconnect in a row changes nothing
C7_DisconnectIdempotent ==
    [][op'.name = "disconnect" =>
          /\ splunkd' = NoSplunkd
          /\ ui' = UiDisconnected
          /\ raised' = "none"
          /\ (op.name \in {"disconnect", "__init__"} => Window' = Window)]_vars

C7_Witness ==
    /\ op.name = "disconnect"
    /\ op.repeated
    /\ splunkd = NoSplunkd
    /\ pollCount > 0

\* the slot was an ad-hoc send on a live Session: its probe was answered
SentOnLiveSession ==
    /\ op.name = "restSend"
    /\ op.probe = "none"
    /\ CallNames # <<>>
    /\ CallNames[1] = "service.settings"

\* the dict {k1: v1, ..., kn: vn}, a later duplicate key replacing an earlier one
DictOf(kvs) ==
    [k \in {kvs[i][1] : i \in 1..Len(kvs)} |->
        kvs[CHOOSE i \in 1..Len(kvs) :
                /\ kvs[i][1] = k
                /\ \A j \in (i + 1)..Len(kvs) : kvs[j][1] # k][2]]

\* C8: the URI path?k1=v1&...&kn=vn is dispatched to path with exactly the
\* parameters {k1: v1, ..., kn: vn}; a URI without '?' is dispatched
\* unchanged with no parameters
C8_QueryStringDispatched ==
    SentOnLiveSession =>
        /\ \A kvs \in KVLists :
              op.uri = BuildUri(RestPath, kvs) =>
                  sent.rest = <<Request(RestPath, op.method, op.body, DictOf(kvs))>>
        /\ ~Contains(op.uri, "?") =>
              sent.rest = <<Request(op.uri, op.method, op.body, NoParams)>>

\* the text after the first '?'
RECURSIVE QueryString(_)
QueryString(text) ==
    IF text = <<>> THEN <<>>
    ELSE IF Head(text) = "?" THEN Tail(text)
    ELSE QueryString(Tail(text))

\* some '&'-separated pair of the query string has no '='
LacksEquals(text) ==
    /\ Contains(text, "?")
    /\ \E i \in 1..Len(Split(QueryString(text), "&")) :
          ~Contains(Split(QueryString(text), "&")[i], "=")

\* C9: on a live Session, a query string with a pair that lacks '=' gives
\* one parsing warning and no dispatch; the Session stays live and the REST
\* result and the URI history are unchanged
C9_MalformedQueryRejected ==
    [][(/\ op'.name = "restSend"
        /\ op'.probe = "none"
        /\ LacksEquals(op'.uri))
       => /\ Len(Dialogs(trace')) = 1
          /\ Dialogs(trace')[1].kind = "warning"
          /\ Dialogs(trace')[1].name = "Unable to parse parameters in URI, check formatting"
          /\ sent'.rest = <<>>
          /\ \A i \in 1..Len(Calls(trace')) : Calls(trace')[i].name # "rest_call"
          /\ raised' = "none"
          /\ splunkd' = splunkd
          /\ splunkd' # NoSplunkd
          /\ rest' = rest]_vars

C9_Witness ==
    /\ SentOnLiveSession
    /\ LacksEquals(op.uri)
    /\ Len(Dialogs(trace)) = 1
    /\ rest.result # <<>>
    /\ rest.history # <<>>

\* C10: an ad-hoc send with a malformed query string sends no request at
\* all, the liveness probe included
C10_MalformedQueryBeforeNetwork ==
    (op.name = "restSend" /\ LacksEquals(op.uri)) => Calls(trace) = <<>>

\* the last slot made the network call n
Called(n) == \E i \in 1..Len(CallNames) : CallNames[i] = n

\* C11: a socket failure raised while the ad-hoc request is dispatched tears
\* the Session down and a message naming the cause is shown
C11_RestSocketFailureFatal ==
    (/\ SentOnLiveSession
     /\ Called("rest_call")
     /\ op.outcome = "socket.error")
    => /\ splunkd = NoSplunkd
       /\ \E i \in 1..Len(Dialogs(trace)) : Dialogs(trace)[i].detail = "cause"

\* C12: once the restart slot has issued the restart request, the state is
\* Disconnected when the slot ends, whether the call returned or raised
C12_RestartInvalidatesSession ==
    (op.name = "restart" /\ Called("service.restart")) => splunkd = NoSplunkd

\* the last slot posted the deployment-client change and the server answered
DeploymentAnswered ==
    /\ op.name = "changeDeploymentServer"
    /\ op.yes
    /\ op.outcome = "none"
    /\ Called("rest_call")

\* the answer reports a failure: type other than INFO, or 'modified 0 key'
ReportsFailure(reply) == reply.type # "INFO" \/ reply.modified0

\* C13: when the deployment-client change succeeded and the restart call
\* that follows raises, the state after the slot is Disconnected
C13_FailedRestartAfterChangeTearsDown ==
    (/\ DeploymentAnswered
     /\ ~ReportsFailure(op.reply)
     /\ op.restarted # "none")
    => splunkd = NoSplunkd

\* the body the claim expects for target
ExpectedBody(target) ==
    IF target = <<>>
    THEN <<"disabled", "=", "1", "&", "targetUri", "=">>
    ELSE <<"disabled", "=", "0", "&", "targetUri", "=">> \o target

\* C14: the deployment-client change posts disabled=1 and an empty
\* targetUri for an empty target, disabled=0 and targetUri=T for a target T;
\* when the answer reports no failure, exactly one restart request follows
\* the post and the state is then Disconnected
C14_DeploymentChangePostsAndRestarts ==
    (op.name = "changeDeploymentServer" /\ Called("rest_call"))
    => /\ sent.rest = <<Request(DeploymentUri, "POST", ExpectedBody(op.target), NoParams)>>
       /\ (op.outcome = "none" /\ ~ReportsFailure(op.reply))
          => /\ CallNames = <<"service.settings", "rest_call", "service.restart">>
             /\ splunkd = NoSplunkd

\* C15: when the answer to the deployment-client change has a type other
\* than INFO or a text with 'modified 0 key', one message with the server's
\* text is shown, no restart request is issued and the Session stays live
C15_ReportedFailureKeepsSession ==
    [][(/\ op'.name = "changeDeploymentServer"
        /\ op'.yes
        /\ op'.outcome = "none"
        /\ ReportsFailure(op'.reply))
       => /\ Len(Dialogs(trace')) = 1
          /\ Dialogs(trace')[1].kind = "critical"
          /\ Dialogs(trace')[1].detail = ReplyText(op'.reply)
          /\ \A i \in 1..Len(Calls(trace')) : Calls(trace')[i].name # "service.restart"
          /\ raised' = "none"
          /\ splunkd' = splunkd
          /\ splunkd' # NoSplunkd
          /\ ui' = ui]_vars

C15_Witness ==
    /\ DeploymentAnswered
    /\ op.reply.type = "INFO"
    /\ op.reply.modified0
    /\ op.target # <<>>
    /\ splunkd # NoSplunkd
    /\ Len(Dialogs(trace)) = 1
    /\ Dialogs(trace)[1].name = "Splunkd reports no changes made to deployment server URI"

\* C16: a failure of the refresh-configuration action is reported and
\* leaves the Session live, except an authentication or socket failure,
\* which tears the Session down
C16_RefreshFailureScoped ==
    (/\ op.name = "refresh"
     /\ Called("refresh_config")
     /\ op.outcome # "none")
    => IF op.outcome \in {"AuthenticationError", "socket.error"}
       THEN splunkd = NoSplunkd
       ELSE /\ splunkd # NoSplunkd
            /\ Len(Dialogs(trace)) = 1

\* the last slot ran a poll all of whose steps succeeded
SuccessfulPoll ==
    /\ RanPoll
    /\ op.in.probe = "none" /\ op.in.failAt = 0
    /\ op.in.cfgProbe = "none" /\ op.in.cfgRead = "none"
    /\ raised = "none"

\* the fields filled from the cluster, search-head-cluster and resource data
SnapshotFields == ResourceFields \cup {"clusterChecks", "clusterTables",
                                       "shcChecks", "shcTables"}

\* C17: after a successful poll every snapshot-derived field shows the data
\* of that poll, the placeholder where the new value is zero, empty or
\* absent; no field keeps the value of an earlier poll
C17_NoStaleFieldAfterPoll ==
    SuccessfulPoll =>
        \A f \in SnapshotFields : disp[f] = NewDisplay(pollCount, op.in)[f]

\* C18: in the Indexer Cluster labels shown for a cluster master, searchable
\* plus not searchable equals the total, for the peers and for the indexes,
\* and each of the four counts lies between 0 and its total
C18_ClusterCountsAddUp ==
    tables.cluster.known =>
        LET c == tables.cluster
        IN  /\ c.peersSearchable + c.peersNotSearchable = c.peersTotal
            /\ c.indexesSearchable + c.indexesNotSearchable = c.indexesTotal
            /\ c.peersSearchable \in 0..c.peersTotal
            /\ c.peersNotSearchable \in 0..c.peersTotal
            /\ c.indexesSearchable \in 0..c.indexesTotal
            /\ c.indexesNotSearchable \in 0..c.indexesTotal

C18_Witness ==
    /\ SuccessfulPoll
    /\ tables.cluster.known
    /\ tables.cluster.peersTotal = 2
    /\ tables.cluster.peersSearchable = 1
    /\ tables.cluster.indexesTotal = 1
    /\ tables.cluster.indexesNotSearchable = 1

\* entry m of the merged collection is entry e of a source collection with
\* the tag t and every other field as it was
TaggedCopy(m, e, t) ==
    /\ DOMAIN m = DOMAIN e \cup {"tcptype"}
    /\ m["tcptype"] = t
    /\ \A f \in DOMAIN e \ {"tcptype"} : m[f] = e[f]

\* C19: the merged TCP-listener collection is every raw record, tagged
\* 'Raw', followed by every cooked record, tagged 'Cooked', every other
\* field unchanged, and nothing else
C19_TcpMergeTagsAndKeeps ==
    SuccessfulPoll =>
        LET raw    == op.in.rawtcp
            cooked == op.in.cookedtcp
        IN  /\ Len(tables.tcp) = Len(raw) + Len(cooked)
            /\ \A i \in 1..Len(raw) : TaggedCopy(tables.tcp[i], raw[i], "Raw")
            /\ \A i \in 1..Len(cooked) :
                  TaggedCopy(tables.tcp[Len(raw) + i], cooked[i], "Cooked")

C19_Witness ==
    /\ SuccessfulPoll
    /\ Len(op.in.rawtcp) = 2
    /\ Len(op.in.cookedtcp) = 1
    /\ "tcptype" \in DOMAIN op.in.cookedtcp[1]
    /\ Len(tables.tcp) = 3
    /\ tables.tcp[3]["tcptype"] = "Cooked"

\* the status lines and network calls of the sub-polls, as the last slot
\* made them
IsSubPollEvent(e) ==
    \/ e.kind = "call" /\ IsSubPoll(e.name)
    \/ e.kind = "status" /\ \E i \in 1..NumSubPolls : SubPollStatus[i] = e.name

\* the first n sub-polls, each after its status line
InOrder(n) ==
    [i \in 1..(2 * n) |->
        IF i % 2 = 1 THEN Event("status", SubPollStatus[(i + 1) \div 2], "")
        ELSE Event("call", SubPolls[i \div 2], "")]

\* C20: in a poll whose probe succeeded the sub-polls run in the fixed
\* order, each right after one status line of its own, and none runs after
\* a sub-poll that failed
C20_SubPollsInOrder ==
    (RanPoll /\ op.in.probe = "none")
    => SelectSeq(trace, IsSubPollEvent)
         = InOrder(IF op.in.failAt = 0 THEN NumSubPolls ELSE op.in.failAt)

C20_Witness ==
    /\ RanPoll
    /\ op.in.probe = "none"
    /\ op.in.failAt = 3
    /\ SubPollsRun = SubSeq(SubPolls, 1, 3)
    /\ StatusLines(trace)[Len(StatusLines(trace))].name = "Polling messages..."

\* C21: when Splunkd(...) fails with an authentication, a name-resolution
\* or a socket error, one warning is shown, no Session exists, no poll
\* runs, and the connection form stays enabled
C21_FailedCreationStaysDisconnected ==
    (/\ op.name = "connect"
     /\ op.created \in {"AuthenticationError", "socket.gaierror", "socket.error"}
     /\ sent.connect # <<>>)
    => /\ Len(Dialogs(trace)) = 1
       /\ Dialogs(trace)[1].kind = "warning"
       /\ splunkd = NoSplunkd
       /\ CallNames = <<"Splunkd">>
       /\ raised = "none"
       /\ ui = UiDisconnected

C21_Witness ==
    /\ op.name = "connect"
    /\ op.created = "socket.gaierror"
    /\ sent.connect # <<>>
    /\ Dialogs(trace)[1].name = "Unable to connect to host"
    /\ ui.comboAddress /\ ui.editUsername /\ ui.editPassword

\* the arguments connect hands to Splunkd(...) for the texts of the form
FormArgs ==
    LET c == ConnectCheck(form.address, form.username, form.password)
    IN  [host |-> c.host, port |-> c.port, user |-> c.user, pass |-> c.pass]

\* C22: a Session comes into being only by the toggle when none exists, it
\* is a new one (no earlier Session had its identity) built from the texts
\* of the form; with a Session the toggle tears it down
C22_OneSessionNeverReused ==
    [][/\ (splunkd' # NoSplunkd /\ splunkd' # splunkd)
          => /\ splunkd = NoSplunkd
             /\ op'.name = "connect"
             /\ splunkd'.id > pollCount
             /\ splunkd' = [id |-> splunkd'.id] @@ FormArgs
       /\ (op'.name = "connect" /\ sent'.connect # <<>>)
          => /\ splunkd = NoSplunkd
             /\ sent'.connect = <<FormArgs>>
       /\ (op'.name = "disconnect") => splunkd' = NoSplunkd
       /\ (splunkd # NoSplunkd) => splunkd.id <= pollCount]_vars

C22_Witness ==
    /\ op.name = "connect"
    /\ splunkd # NoSplunkd
    /\ splunkd.id = 2
    /\ pollCount = 2

\* C23: a successful ad-hoc send changes only editRestResult and the URI
\* history: the snapshot-derived fields, the Session and the connection
\* widgets are the same after it as before it
C23_RestSendFrame ==
    [][(/\ op'.name = "restSend"
        /\ op'.probe = "none"
        /\ op'.outcome = "none"
        /\ sent'.rest # <<>>)
       => /\ disp' = disp
          /\ tables' = tables
          /\ splunkd' = splunkd
          /\ splunkd' # NoSplunkd
          /\ ui' = ui
          /\ pollCount' = pollCount
          /\ raised' = "none"]_vars

C23_Witness ==
    /\ SentOnLiveSession
    /\ op.outcome = "none"
    /\ sent.rest # <<>>
    /\ rest.result = sent.rest
    /\ \E i \in 1..Len(rest.history) : rest.history[i] = op.uri /\ op.uri \notin PresetUris
    /\ disp["editConfig"] > Placeholder

\* C24: after disconnect nothing of an earlier Snapshot is shown: every
\* snapshot-derived field, the configuration-file list included, holds its
\* placeholder and the tables are empty
C24_DisconnectClearsSnapshot ==
    (op.name = "disconnect")
    => /\ \A f \in DispFields : disp[f] = Placeholder
       /\ tables = NoTables

\* slot o, started on a live Session whose probe was answered, had its
\* confirmation declined or its input dialog cancelled
Declined(o) ==
    /\ o.probe = "none"
    /\ \/ o.name \in {"restart", "refresh"} /\ ~o.yes
       \/ o.name = "changeDeploymentServer" /\ (~o.ok \/ ~o.yes)

\* no restart, reload or deployment-client post among the calls of trace t
NoChangeRequest(t) ==
    \A i \in 1..Len(Calls(t)) :
        Calls(t)[i].name \notin {"service.restart", "refresh_config", "rest_call"}

PollFailed(in) ==
    \/ in.probe # "none"
    \/ in.failAt # 0
    \/ in.cfgProbe # "none"
    \/ in.cfgRead # "none"

C26_ControlsAgreeWithSession ==
    /\ ui.buttonPoll = (splunkd # NoSplunkd)
    /\ ui.tabWidgetMain = (splunkd # NoSplunkd)
    /\ ui.comboAddress = (splunkd = NoSplunkd)
    /\ ui.editUsername = (splunkd = NoSplunkd)
    /\ ui.editPassword = (splunkd = NoSplunkd)

C26_Witness ==
    /\ op.name = "connect"
    /\ op.created = "none"
    /\ op.in.probe = "socket.error"
    /\ sent.connect # <<>>
    /\ splunkd = NoSplunkd
    /\ ~ui.buttonPoll
    /\ ui.comboAddress

\* C27: restart, refresh configurations or change deployment server
\* triggered from the menu with no Session issues no network call, raises
\* nothing unhandled and leaves the state Disconnected
C27_MenuWhileDisconnected ==
    [][(/\ splunkd = NoSplunkd
        /\ op'.name \in {"restart", "refresh", "changeDeploymentServer"})
       => /\ Calls(trace') = <<>>
          /\ raised' = "none"
          /\ splunkd' = NoSplunkd]_vars

====
